---- MODULE Spec2Model ----
(***************************************************************************)
(* Model of the spreadsheet assembly of the PDF-to-Excel order-note tool.  *)
(*                                                                         *)
(* Two scripts carry a variant of the assembler each: main.py ("main") and *)
(* pdf-to-excel-processor.py ("proc").  A worksheet is modelled the way    *)
(* openpyxl keeps it: a sparse dictionary of cells keyed by <<row, col>>   *)
(* (a key is present exactly when the cell object exists, which is what    *)
(* ws.max_row reads) and the collection of merged ranges.  Row heights     *)
(* (ws.row_dimensions) are left out: no property below reads them.         *)
(*                                                                         *)
(* Python values: None is [t |-> "none"], a str is [t |-> "str", s |-> q]  *)
(* with q a sequence of characters, a list is [t |-> "list", l |-> q].     *)
(* A dict is a function from the keys that are present.                    *)
(***************************************************************************)
EXTENDS Integers, Sequences, FiniteSets, TLC

VARIABLES
    tmpl,       \* which template file the workbooks were loaded from
    iterOrder,  \* iteration order of the merged-range collection in this build
    wb,         \* wb[v]: the worksheet of variant v
    result,     \* result[v]: what the latest map_data_to_excel of variant v did so far
    pc,         \* the step map_data_to_excel is about to take, "idle" between calls
    data,       \* the OrderRecord of the latest call
    runs,       \* calls since the template was loaded
    prev,       \* data and merged ranges of the call before the latest one
    pdf_files,      \* process_all_pdfs: the PDF files of the input folder, as listed
    index,          \* process_all_pdfs: the file the loop is at, 0 before the listing
    extracted_data, \* process_all_pdfs: what process_pdf returned last
    output_folder,  \* output_folder[v]: the files script v has saved, by file name
    console,        \* what process_all_pdfs reported of each file it is through with
    attempt,        \* process_pdf: the loop variable of "for attempt in range(max_retries)"
    model_calls,    \* process_pdf: the calls of model.generate_content made so far
    outcomes,       \* process_pdf: what each pass of the loop met, in order
    returned        \* process_pdf: not called, running, or returned with a value

batch == <<pdf_files, index, extracted_data, output_folder, console>>

extraction == <<attempt, model_calls, outcomes, returned>>

vars == <<tmpl, iterOrder, wb, result, pc, data, runs, prev,
          pdf_files, index, extracted_data, output_folder, console,
          attempt, model_calls, outcomes, returned>>

Variants == {"main", "proc"}

(***************************************************************************)
(* Bounds.                                                                 *)
(***************************************************************************)
MaxItems == 6
MaxRuns == 2

(***************************************************************************)
(* Python values.                                                          *)
(***************************************************************************)
PyNone == [t |-> "none"]
Str(q) == [t |-> "str", s |-> q]
PyList(q) == [t |-> "list", l |-> q]
Empty == Str(<<>>)

\* a call of a function: not made yet, under way, or returned with a value
NotCalled == [state |-> "not called", value |-> PyNone]
Running == [state |-> "running", value |-> PyNone]
Return(value) == [state |-> "returned", value |-> value]
NL == "\n"

\* dict.get(key, default)
Get(d, key, default) == IF key \in DOMAIN d THEN d[key] ELSE default

\* truth value of a Python object in `if x:`
Truthy(x) ==
    CASE x.t = "none" -> FALSE
      [] x.t = "str"  -> x.s # <<>>
      [] x.t = "list" -> x.l # <<>>

Digit == <<"0", "1", "2", "3", "4", "5", "6", "7", "8", "9">>

RECURSIVE Decimal(_)
\* str(n) for n >= 0, as a sequence of digit characters
Decimal(n) == IF n < 10 THEN <<Digit[n + 1]>>
              ELSE Decimal(n \div 10) \o <<Digit[(n % 10) + 1]>>

\* f"{n}."
Label(n) == Str(Decimal(n) \o <<".">>)

(***************************************************************************)
(* The worksheet: openpyxl's Worksheet as the two scripts use it.          *)
(***************************************************************************)
Cols == 1..12   \* columns A..L

\* openpyxl.cell.Cell as ws.cell() creates it
NewCell == [kind |-> "cell", value |-> PyNone, font |-> "default",
            border |-> "default", fill |-> "default",
            number_format |-> "General", protection |-> "default",
            alignment |-> "default"]

\* openpyxl.cell.MergedCell: the placeholder merge_cells puts in every cell
\* of a range but the top-left one; its value is read-only
NewMergedCell == [NewCell EXCEPT !.kind = "merged"]

StyleAttrs == {"font", "border", "fill", "number_format", "protection", "alignment"}

\* cell.has_style
HasStyle(cell) == \E a \in StyleAttrs : cell[a] # NewCell[a]

\* a cell range min_row, min_col, max_row, max_col
Range(r1, c1, r2, c2) == [r1 |-> r1, c1 |-> c1, r2 |-> r2, c2 |-> c2]

RangeCells(rg) == (rg.r1 .. rg.r2) \X (rg.c1 .. rg.c2)

\* CellRange.__le__: rg lies within m
Within(rg, m) == /\ m.r1 <= rg.r1 /\ rg.r2 <= m.r2
                 /\ m.c1 <= rg.c1 /\ rg.c2 <= m.c2

\* a range touches row r
Touches(rg, r) == rg.r1 <= r /\ r <= rg.r2

\* row-major order of the cells of a range (CellRange.cells)
Before(k1, k2) == k1[1] < k2[1] \/ (k1[1] = k2[1] /\ k1[2] < k2[2])

Exists(ws, r, c) == <<r, c>> \in DOMAIN ws.cells

IsMerged(ws, r, c) == Exists(ws, r, c) /\ ws.cells[<<r, c>>].kind = "merged"

SetMax(S) == CHOOSE x \in S : \A y \in S : y <= x

\* ws.max_row: the largest row that holds a cell object, 1 for an empty sheet
MaxRow(ws) == IF DOMAIN ws.cells = {} THEN 1
              ELSE SetMax({k[1] : k \in DOMAIN ws.cells})

\* outcome of a call: the worksheet as the call left it, and whether it raised
Ok(ws) == [ws |-> ws, err |-> FALSE]
Raised(ws) == [ws |-> ws, err |-> TRUE]
Outcome(r) == [ws |-> r.ws, err |-> r.err]

\* ws.cell(row, column): the cell object, created when it is missing
Touch(ws, r, c) ==
    IF Exists(ws, r, c) THEN ws
    ELSE [ws EXCEPT !.cells = (<<r, c>> :> NewCell) @@ @]

\* cell.value = v on ws.cell(r, c); a MergedCell raises AttributeError
AssignValue(ws, r, c, v) ==
    LET w == Touch(ws, r, c) IN
    IF IsMerged(w, r, c) THEN Raised(w)
    ELSE Ok([w EXCEPT !.cells[<<r, c>>].value = v])

\* ws.cell(row, column, value=v): the value is assigned only when not None
CellValue(ws, r, c, v) ==
    IF v = PyNone THEN Ok(Touch(ws, r, c)) ELSE AssignValue(ws, r, c, v)

\* cell.<attr> = tok on ws.cell(r, c); styles can be set on a MergedCell too
SetStyle(ws, r, c, attr, tok) ==
    [Touch(ws, r, c) EXCEPT !.cells[<<r, c>>][attr] = tok]

\* ws.insert_rows(idx): every cell at row >= idx moves one row down; the
\* merged ranges are not moved
InsertRows(ws, idx) ==
    LET old == DOMAIN ws.cells
        to(k) == IF k[1] >= idx THEN <<k[1] + 1, k[2]>> ELSE k
        from(k) == IF k[1] > idx THEN <<k[1] - 1, k[2]>> ELSE k
    IN [ws EXCEPT !.cells = [k \in {to(j) : j \in old} |-> ws.cells[from(k)]] @@ <<>>]

\* ws.delete_rows(idx, amount): cells below the deleted rows move up, then
\* the rows left over at the bottom are dropped; merged ranges are not moved
DeleteRows(ws, idx, amount) ==
    LET old == DOMAIN ws.cells
        mr == MaxRow(ws)
        lo == IF mr + 1 - amount > idx THEN mr + 1 - amount ELSE idx
        hi == IF idx + amount < mr THEN idx + amount ELSE mr
        moved == {<<k[1] - amount, k[2]>> : k \in {j \in old : j[1] >= idx + amount}}
        stay == {k \in old : k[1] < idx + amount}
        keys == {k \in stay \cup moved : ~(lo <= k[1] /\ k[1] <= hi)}
    IN [ws EXCEPT !.cells =
          [k \in keys |-> IF k \in moved THEN ws.cells[<<k[1] + amount, k[2]>>]
                          ELSE ws.cells[k]] @@ <<>>]

\* ws.merge_cells(range): the range joins the collection unless it lies within
\* a range already there; the top-left cell is created when missing and every
\* other cell of the range is replaced by a fresh MergedCell
MergeCells(ws, rg) ==
    LET w == Touch(ws, rg.r1, rg.c1)
        rest == RangeCells(rg) \ {<<rg.r1, rg.c1>>}
        keys == DOMAIN w.cells \cup rest
    IN [cells |-> [k \in keys |-> IF k \in rest THEN NewMergedCell ELSE w.cells[k]] @@ <<>>,
        merged |-> IF \E m \in w.merged : Within(rg, m) THEN w.merged
                   ELSE w.merged \cup {rg}]

\* ws.unmerge_cells(range): ValueError when the range lies within no merged
\* range, KeyError when it is not itself in the collection; else the range is
\* removed and its cells but the top-left one are deleted in row-major order,
\* which raises KeyError at the first cell that does not exist
UnmergeCells(ws, rg) ==
    IF ~(\E m \in ws.merged : Within(rg, m)) THEN Raised(ws)
    ELSE IF rg \notin ws.merged THEN Raised(ws)
    ELSE LET rest == RangeCells(rg) \ {<<rg.r1, rg.c1>>}
             have == DOMAIN ws.cells
             gone == {k \in rest : \A j \in rest : (j = k \/ Before(j, k)) => j \in have}
             w == [cells |-> [k \in have \ gone |-> ws.cells[k]] @@ <<>>,
                   merged |-> ws.merged \ {rg}]
         IN IF rest \subseteq have THEN Ok(w) ELSE Raised(w)

(***************************************************************************)
(* safely_unmerge_row_cells                                                *)
(***************************************************************************)
RangeLess(a, b) ==
    LET ka == <<a.r1, a.c1, a.r2, a.c2>>
        kb == <<b.r1, b.c1, b.r2, b.c2>>
    IN \E i \in 1..4 : ka[i] < kb[i] /\ \A j \in 1..(i - 1) : ka[j] = kb[j]

\* list(ws.merged_cells.ranges) restricted to S: the order in which the
\* collection hands out its ranges
RECURSIVE Listed(_, _)
Listed(S, order) ==
    IF S = {} THEN <<>>
    ELSE LET x == CHOOSE x \in S : \A y \in S \ {x} :
                      IF order = "desc" THEN RangeLess(y, x) ELSE RangeLess(x, y)
         IN <<x>> \o Listed(S \ {x}, order)

\* the exception ws.unmerge_cells(rg) raises, "none" when it raises none
UnmergeError(ws, rg) ==
    IF ~(\E m \in ws.merged : Within(rg, m)) THEN "ValueError"
    ELSE IF rg \notin ws.merged THEN "KeyError"
    ELSE IF RangeCells(rg) \ {<<rg.r1, rg.c1>>} \subseteq DOMAIN ws.cells THEN "none"
    ELSE "KeyError"

\* a handler that catches ValueError only
HandledValueErrorOnly(exc) == exc = "ValueError"

\* "except (ValueError, KeyError)"
Handled(exc) == exc \in {"ValueError", "KeyError"}

\* the second loop: each collected range is unmerged, a handled exception
\* skips to the next range, any other ends the loop
RECURSIVE UnmergeEach(_, _)
UnmergeEach(ws, rgs) ==
    IF rgs = <<>> THEN Ok(ws)
    ELSE LET exc == UnmergeError(ws, Head(rgs))
             r == UnmergeCells(ws, Head(rgs))
         IN IF exc # "none" /\ ~Handled(exc) THEN Raised(r.ws)
            ELSE UnmergeEach(r.ws, Tail(rgs))

\* the function dissolving nothing
SafelyUnmergeNothing(ws, row) == Ok(ws)

\* the function collecting the ranges that start in the row only
SafelyUnmergeTopRowOnly(ws, row) ==
    Ok(UnmergeEach(ws, Listed({m \in ws.merged : m.r1 = row}, iterOrder)).ws)

\* the body of safely_unmerge_row_cells under its outer "except Exception",
\* which swallows what the loop lets through: the outcome never raises
SafelyUnmergeOutcome(ws, row) ==
    Ok(UnmergeEach(ws, Listed({m \in ws.merged : Touches(m, row)}, iterOrder)).ws)

SafelyUnmergeRowCells(ws, row) == SafelyUnmergeOutcome(ws, row).ws

(***************************************************************************)
(* Statements.  A Python function body is written as the sequence of the   *)
(* calls it makes; Exec runs a sequence in order, and the first statement  *)
(* that raises ends it with the effects made so far kept.                  *)
(***************************************************************************)
SValue(r, c, v) == [op |-> "value", r |-> r, c |-> c, v |-> v]          \* ws.cell(r, c, value=v)
SAssign(r, c, v) == [op |-> "assign", r |-> r, c |-> c, v |-> v]        \* ws.cell(r, c).value = v
SStyle(r, c, a, tok) == [op |-> "style", r |-> r, c |-> c, a |-> a, tok |-> tok]
SMerge(rg) == [op |-> "merge", rg |-> rg]                               \* ws.merge_cells(rg)
SInsert(idx) == [op |-> "insert", idx |-> idx]                          \* ws.insert_rows(idx)
SUnmergeRow(row) == [op |-> "unmerge_row", row |-> row]                 \* safely_unmerge_row_cells(ws, row)
SBlock(body) == [op |-> "block", body |-> body]                         \* statements in sequence
STry(body) == [op |-> "try", body |-> body]                             \* try: body / except Exception: log
SRaise == [op |-> "raise"]                                              \* an expression that raises

RedFill == "solid-FF0000"
LeftCenter == "left,center"

\* one column of copy_row_format's loop: both cells are fetched, the six
\* style attributes are copied when the source cell has a style
CopyCellFormat(ws, source_row, target_row, col) ==
    LET w == Touch(Touch(ws, source_row, col), target_row, col)
        source == w.cells[<<source_row, col>>]
    IN IF HasStyle(source)
       THEN [w EXCEPT !.cells[<<target_row, col>>] =
                [a \in DOMAIN @ |-> IF a \in StyleAttrs THEN source[a] ELSE @[a]]]
       ELSE w

SCopyCell(source_row, target_row, col) ==
    [op |-> "copy", source_row |-> source_row, target_row |-> target_row, col |-> col]

\* add_additional_rows: "if not isinstance(cell, MergedCell): cell.value = ''"
\* and, for the columns B..K, the alignment set under the same test
ClearCell(ws, r, c) ==
    LET w == Touch(ws, r, c) IN
    IF IsMerged(w, r, c) THEN w
    ELSE LET x == [w EXCEPT !.cells[<<r, c>>].value = Empty] IN
         IF c \in 2..11 THEN SetStyle(x, r, c, "alignment", LeftCenter) ELSE x

SClear(r, c) == [op |-> "clear", r |-> r, c |-> c]

\* add_additional_rows: "if current_row > ws.max_row: ws.insert_rows(current_row)"
InsertIfBeyond(ws, current_row) ==
    IF current_row > MaxRow(ws) THEN InsertRows(ws, current_row) ELSE ws

SInsertIfBeyond(row) == [op |-> "insert_if_beyond", row |-> row]

\* the cleanup deleting the stale rows without dissolving their merges
CleanExtraRowsDeleteOnly(ws, last_item_row) ==
    LET current_max_row == MaxRow(ws)
        rows_to_delete == current_max_row - last_item_row
    IN IF current_max_row > last_item_row
       THEN << STry(<< [op |-> "delete", idx |-> last_item_row + 1,
                        amount |-> rows_to_delete] >>) >>
       ELSE <<>>

\* map_data_to_excel of pdf-to-excel-processor.py: "Clean up any existing
\* extra rows BEFORE adding new ones"; the statements depend on ws.max_row
CleanExtraRows(ws, last_item_row) ==
    LET current_max_row == MaxRow(ws)
        rows_to_delete == current_max_row - last_item_row
    IN IF current_max_row > last_item_row
       THEN [i \in 1..rows_to_delete |-> SUnmergeRow(last_item_row + i)]
            \o (IF rows_to_delete > 0
                THEN << STry(<< [op |-> "delete", idx |-> last_item_row + 1,
                                 amount |-> rows_to_delete] >>) >>
                ELSE <<>>)
       ELSE <<>>

SCleanExtraRows(last_item_row) == [op |-> "clean", last_item_row |-> last_item_row]

\* "for merged_range in list(ws.merged_cells.ranges): if str(merged_range) ==
\* <rg>: try: ws.unmerge_cells(<rg>) except (ValueError, KeyError): pass; break"
UnmergeIfListed(ws, rg) == IF rg \in ws.merged THEN UnmergeCells(ws, rg).ws ELSE ws

SUnmergeIfListed(rg) == [op |-> "unmerge_if_listed", rg |-> rg]

RECURSIVE Exec(_, _)
RECURSIVE Do(_, _)
\* the outcome of one statement
Do(ws, st) ==
    CASE st.op = "value"  -> CellValue(ws, st.r, st.c, st.v)
      [] st.op = "assign" -> AssignValue(ws, st.r, st.c, st.v)
      [] st.op = "style"  -> Ok(SetStyle(ws, st.r, st.c, st.a, st.tok))
      [] st.op = "merge"  -> Ok(MergeCells(ws, st.rg))
      [] st.op = "insert" -> Ok(InsertRows(ws, st.idx))
      [] st.op = "delete" -> Ok(DeleteRows(ws, st.idx, st.amount))
      [] st.op = "unmerge_row" -> Ok(SafelyUnmergeRowCells(ws, st.row))
      [] st.op = "copy"   -> Ok(CopyCellFormat(ws, st.source_row, st.target_row, st.col))
      [] st.op = "clear"  -> Ok(ClearCell(ws, st.r, st.c))
      [] st.op = "insert_if_beyond" -> Ok(InsertIfBeyond(ws, st.row))
      [] st.op = "clean"  -> Outcome(Exec(ws, CleanExtraRows(ws, st.last_item_row)))
      [] st.op = "unmerge_if_listed" -> Ok(UnmergeIfListed(ws, st.rg))
      [] st.op = "block"  -> Outcome(Exec(ws, st.body))
      [] st.op = "try"    -> Ok(Exec(ws, st.body).ws)
      [] st.op = "raise"  -> Raised(ws)

\* the outcome of a sequence of statements; n counts the statements that
\* completed before one raised
Exec(ws, prog) ==
    IF prog = <<>> THEN [ws |-> ws, err |-> FALSE, n |-> 0]
    ELSE LET r == Do(ws, Head(prog)) IN
         IF r.err THEN [ws |-> r.ws, err |-> TRUE, n |-> 0]
         ELSE [Exec(r.ws, Tail(prog)) EXCEPT !.n = @ + 1]

(***************************************************************************)
(* copy_row_format, prepare_product_rows, set_product_data                 *)
(***************************************************************************)
\* one column of the loop without a try of its own
CopyColumnUnguarded(source_row, target_row, col, bad) ==
    IF col = bad THEN SRaise ELSE SCopyCell(source_row, target_row, col)

\* one column of the loop: "try: ... except Exception: continue"; bad is the
\* column whose copy raises, 0 when none does
CopyColumn(source_row, target_row, col, bad) ==
    STry(<< IF col = bad THEN SRaise ELSE SCopyCell(source_row, target_row, col) >>)

\* copy_row_format dissolving the merges of the target row after the copy
CopyRowFormatUnmergeLast(source_row, target_row, bad) ==
    STry([col \in 1..12 |-> CopyColumn(source_row, target_row, col, bad)]
         \o << SUnmergeRow(target_row) >>
         \o << SStyle(target_row, 12, "fill", RedFill) >>)

\* copy_row_format with the copy of column bad raising
CopyRowFormatWith(source_row, target_row, bad) ==
    STry(<< SUnmergeRow(target_row) >>
         \o [col \in 1..12 |-> CopyColumn(source_row, target_row, col, bad)]
         \o << SStyle(target_row, 12, "fill", RedFill) >>)

CopyRowFormat(source_row, target_row) == CopyRowFormatWith(source_row, target_row, 0)

\* the insertion loop's body with the first item row, 12, as the model row
PrepareRowFromFirst(i) ==
    STry(<< SInsert(14 + i),
            CopyRowFormat(12, 14 + i),
            SValue(14 + i, 1, Label(3 + i)) >>)

\* the insertion loop's body inserting at row 14 every time
PrepareRowAtFourteen(i) ==
    STry(<< SInsert(14),
            CopyRowFormat(13, 14 + i),
            SValue(14 + i, 1, Label(3 + i)) >>)

\* the body of the insertion loop for one i, inside its own try
PrepareRow(i) ==
    STry(<< SInsert(14 + i),
            CopyRowFormat(13, 14 + i),
            SValue(14 + i, 1, Label(3 + i)) >>)

\* prepare_product_rows written for a template of one item row
PrepareProductRowsOneRow(num_items) ==
    IF num_items < 2 THEN SBlock(<<>>)
    ELSE SBlock([j \in 1..(num_items - 1) |-> PrepareRow(j - 1)])

PrepareProductRows(num_items) ==
    IF num_items <= 2 THEN SBlock(<<>>)
    ELSE SBlock([j \in 1..(num_items - 2) |-> PrepareRow(j - 1)])

Slash == Str(<<"/">>)

SetProductData(row, product) ==
    STry(<< SUnmergeRow(row),
            SValue(row, 1, Label(row - 11)),
            SValue(row, 2, Get(product, "Item Name", Empty)),
            SValue(row, 3, Get(product, "Embossing Data", Empty)),
            SValue(row, 5, Get(product, "Products Heating", Empty)),
            SValue(row, 6, Get(product, "Sachet Size", Empty)),
            SValue(row, 7, Get(product, "Filling Volume", Empty)),
            SValue(row, 8, Get(product, "Qty", Empty)),
            SValue(row, 9, Get(product, "Required Bulk Quantity", Empty)),
            SValue(row, 10, Slash) >>)

(***************************************************************************)
(* The trailing block of pdf-to-excel-processor.py                         *)
(***************************************************************************)
\* the body of the loop over the 9 rows for one row
AddRow(current_row) ==
    SBlock(<< SUnmergeRow(current_row),
              SInsertIfBeyond(current_row),
              STry(<< SClear(current_row, 1), SClear(current_row, 12) >>
                   \o [col \in 1..10 |-> SClear(current_row, col + 1)]) >>)

AddAdditionalRows(last_item_row) ==
    LET start_row == last_item_row + 1
    IN STry([j \in 1..9 |-> AddRow(start_row + j - 1)])

Caption == Str(<<"Expedicia objednavky">>)

\* the caption row rendered one row lower
FormatExpeditionRowAtThree(last_item_row) ==
    LET target_row == last_item_row + 3 IN
    STry(<< SMerge(Range(target_row, 9, target_row, 12)),
            SAssign(target_row, 9, Caption),
            SStyle(target_row, 9, "font", "Calibri,20,bold"),
            SStyle(target_row, 9, "alignment", "center,center") >>
         \o [i \in 1..4 |-> SStyle(target_row, 8 + i, "border", "medium,box")])

FormatExpeditionRow(last_item_row) ==
    LET target_row == last_item_row + 2 IN
    STry(<< SMerge(Range(target_row, 9, target_row, 12)),
            SAssign(target_row, 9, Caption),
            SStyle(target_row, 9, "font", "Calibri,20,bold"),
            SStyle(target_row, 9, "alignment", "center,center") >>
         \o [i \in 1..4 |-> SStyle(target_row, 8 + i, "border", "medium,box")])

FormatPaletteInfoRow(last_item_row) ==
    LET target_row == last_item_row + 3 IN
    STry(<< SAssign(target_row, 9, Str(<<"Typ palty">>)),
            SStyle(target_row, 9, "border", "thin,left-right-bottom"),
            SStyle(target_row, 9, "alignment", LeftCenter),
            SStyle(target_row, 9, "font", "Calibri,16"),
            SMerge(Range(target_row, 10, target_row, 11)),
            SAssign(target_row, 10, Str(<<"Rozmer">>)),
            SStyle(target_row, 10, "alignment", LeftCenter),
            SStyle(target_row, 10, "font", "Calibri,16"),
            SStyle(target_row, 10, "border", "thin,left-right-bottom"),
            SStyle(target_row, 11, "border", "thin,left-right-bottom"),
            SAssign(target_row, 12, Str(<<"Vaha">>)),
            SStyle(target_row, 12, "border", "thin,left-right-bottom"),
            SStyle(target_row, 12, "alignment", LeftCenter),
            SStyle(target_row, 12, "font", "Calibri,16") >>)

\* the notes box merged over three rows instead of four
FormatFinalRowsThree(last_item_row) ==
    LET start_row == last_item_row + 4
        end_row == last_item_row + 6
    IN STry([i \in 1..4 |-> SStyle(start_row + i - 1, 9, "border", "thin,left")]
            \o << SMerge(Range(start_row, 10, end_row, 11)) >>
            \o [i \in 1..8 |-> SStyle(start_row + ((i - 1) \div 2), 10 + ((i - 1) % 2),
                                      "border", "thin,box")])

FormatFinalRows(last_item_row) ==
    LET start_row == last_item_row + 4
        end_row == last_item_row + 7
    IN STry([i \in 1..4 |-> SStyle(start_row + i - 1, 9, "border", "thin,left")]
            \o << SMerge(Range(start_row, 10, end_row, 11)) >>
            \o [i \in 1..8 |-> SStyle(start_row + ((i - 1) \div 2), 10 + ((i - 1) % 2),
                                      "border", "thin,box")])

FormatFooterRows(last_item_row) ==
    LET signature_row_num == last_item_row + 8
        final_border_row_num == last_item_row + 9
    IN STry([i \in 1..4 |-> SStyle(signature_row_num, 8 + i, "border", "thin,left")]
            \o [i \in 1..12 |-> SStyle(final_border_row_num, i, "border", "thin,box")])

(***************************************************************************)
(* The trailing header of main.py                                          *)
(***************************************************************************)
\* _recreate_expedicia_section; it has no try of its own, so what it raises
\* reaches the caller
RecreateExpediciaSection(new_start_row) ==
    LET header == Range(new_start_row, 9, new_start_row, 12)
        clear(c) == << SAssign(new_start_row, c, PyNone),
                       SStyle(new_start_row, c, "font", "default"),
                       SStyle(new_start_row, c, "fill", "default"),
                       SStyle(new_start_row, c, "border", "default"),
                       SStyle(new_start_row, c, "alignment", "default"),
                       SStyle(new_start_row, c, "number_format", "General"),
                       SStyle(new_start_row, c, "protection", "None") >>
    IN SBlock(<< SUnmergeIfListed(header),
                 SBlock(clear(9)), SBlock(clear(10)), SBlock(clear(11)), SBlock(clear(12)),
                 SMerge(header),
                 SAssign(new_start_row, 9, Caption),
                 SStyle(new_start_row, 9, "alignment", "center,center"),
                 SStyle(new_start_row, 9, "font", "bold"),
                 SStyle(new_start_row, 9, "border", "thin,box") >>)

(***************************************************************************)
(* map_data_to_excel                                                       *)
(***************************************************************************)
\* q.split('\n')
RECURSIVE Split(_)
Split(q) ==
    IF \A i \in 1..Len(q) : q[i] # NL THEN <<q>>
    ELSE LET i == CHOOSE i \in 1..Len(q) : q[i] = NL /\ \A j \in 1..(i - 1) : q[j] # NL
         IN <<SubSeq(q, 1, i - 1)>> \o Split(SubSeq(q, i + 1, Len(q)))

\* '\n'.join(parts)
RECURSIVE Join(_)
Join(parts) ==
    IF parts = <<>> THEN <<>>
    ELSE IF Len(parts) = 1 THEN parts[1]
    ELSE parts[1] \o <<NL>> \o Join(Tail(parts))

HeaderStatements(d) ==
    << SAssign(3, 3, Get(d, "Client Name", Empty)),
       SAssign(4, 3, Get(d, "Order Number", Empty)),
       SAssign(5, 3, Get(d, "Foil", Empty)),
       SAssign(6, 3, Get(d, "Return of Bulk Containers", Empty)),
       SAssign(7, 3, Get(d, "Microbiological Analysis", Empty)) >>

RequirementsBox == Range(4, 9, 9, 12)   \* I4:L9

\* the clauses with the empty ones dropped
SpecificReqsNoBlank(d) ==
    LET specific_reqs == Get(d, "Specific order requirements", Empty)
    IN IF Truthy(specific_reqs)
       THEN SelectSeq(Split(specific_reqs.s), LAMBDA clause : clause # <<>>)
       ELSE << <<>> >>

\* the list of clauses the requirements string is split into
SpecificReqs(d) ==
    LET specific_reqs == Get(d, "Specific order requirements", Empty)
    IN IF Truthy(specific_reqs) THEN Split(specific_reqs.s) ELSE << <<>> >>

RequirementsStatements(d) ==
    << SMerge(RequirementsBox),
       SAssign(4, 9, Str(Join(SpecificReqs(d)))),
       SStyle(4, 9, "alignment", "left,top,wrap") >>

\* items = data.get('Items', [])
ItemsOf(d) == Get(d, "Items", PyList(<<>>))

\* prepare_product_rows(ws, len(items)); len(None) raises TypeError
Provision(items) ==
    IF items.t = "list" THEN PrepareProductRows(Len(items.l)) ELSE SRaise

\* the item loop walking the list from its end
MapProductsReversed(items) ==
    IF items.t = "list"
    THEN SBlock([idx \in 1..Len(items.l) |->
                    SetProductData(11 + idx, items.l[Len(items.l) + 1 - idx])])
    ELSE SRaise

\* the item loop with row = 12 + idx
MapProductsOneDown(items) ==
    IF items.t = "list"
    THEN SBlock([idx \in 1..Len(items.l) |-> SetProductData(12 + idx, items.l[idx])])
    ELSE SRaise

\* for idx, product in enumerate(items, start=1): set_product_data(ws, 11 + idx, product)
MapProducts(items) ==
    IF items.t = "list"
    THEN SBlock([idx \in 1..Len(items.l) |-> SetProductData(11 + idx, items.l[idx])])
    ELSE SRaise

\* the last item row counted from row 12 instead of row 11
LastItemRowFromTwelve(items) == IF Truthy(items) THEN 12 + Len(items.l) ELSE 12

\* the last item row taken one row too high
LastItemRowOneUp(items) == IF Truthy(items) THEN 10 + Len(items.l) ELSE 12

\* pdf-to-excel-processor.py: last_item_row = 11 + len(items) if items else 12
LastItemRow(items) == IF Truthy(items) THEN 11 + Len(items.l) ELSE 12

TrailingBlock(last_item_row) ==
    SBlock(<< AddAdditionalRows(last_item_row),
              FormatExpeditionRow(last_item_row),
              FormatPaletteInfoRow(last_item_row),
              FormatFinalRows(last_item_row),
              FormatFooterRows(last_item_row) >>)

\* the steps of map_data_to_excel of pdf-to-excel-processor.py, in order
StepsProc == <<"header", "requirements", "provision", "items", "cleanup", "trailing">>

MapDataToExcelProc(d) ==
    LET items == ItemsOf(d)
        last_item_row == LastItemRow(items)
    IN << SBlock(HeaderStatements(d)),
          SBlock(RequirementsStatements(d)),
          Provision(items),
          MapProducts(items),
          SCleanExtraRows(last_item_row),
          TrailingBlock(last_item_row) >>

\* the steps of map_data_to_excel of main.py, in order
StepsMain == <<"header", "requirements", "provision", "items", "trailing">>

\* main.py: last_product_row = 11 + len(items)
LastProductRow(items) == IF items.t = "list" THEN 11 + Len(items.l) ELSE 11

MapDataToExcelMain(d) ==
    LET items == ItemsOf(d)
        last_product_row == LastProductRow(items)
        new_expedicia_start_row == last_product_row + 2
    IN << SBlock(HeaderStatements(d)),
          SBlock(<< SUnmergeIfListed(RequirementsBox) >> \o RequirementsStatements(d)),
          Provision(items),
          MapProducts(items),
          RecreateExpediciaSection(new_expedicia_start_row) >>

StepsOf(v) == IF v = "main" THEN StepsMain ELSE StepsProc

MapDataToExcel(v, d) == IF v = "main" THEN MapDataToExcelMain(d) ELSE MapDataToExcelProc(d)

\* the statement of script v for one step
StepStatement(v, step, d) ==
    LET i == CHOOSE i \in 1..Len(StepsOf(v)) : StepsOf(v)[i] = step
    IN MapDataToExcel(v, d)[i]

\* what the state keeps of a call: the steps completed, the step whose error
\* reached the outer "except Exception" ("none" when none did), and what the
\* call returned ("none" while it runs)
NoReport == [done |-> {}, raised |-> "none", returned |-> "none"]

(***************************************************************************)
(* The template workbook: the five header cells, the requirements box      *)
(* I4:L9 and the two styled item rows 12 and 13; "block" also carries a    *)
(* trailing block rendered for two item rows.                              *)
(***************************************************************************)
TemplateKinds == {"bare", "block"}

ItemRowCell(r, c) ==
    [NewCell EXCEPT !.value = IF c = 1 THEN Label(r - 11) ELSE PyNone,
                    !.font = "Calibri,11",
                    !.border = IF r = 12 THEN "thin,box,first" ELSE "thin,box",
                    !.fill = IF c = 12 THEN RedFill ELSE "default",
                    !.alignment = "center,center"]

BareTemplate ==
    LET header == {<<r, 3>> : r \in 3..7}
        rows == (12..13) \X Cols
        w == [cells |-> [k \in header \cup rows |->
                           IF k \in rows THEN ItemRowCell(k[1], k[2])
                           ELSE [NewCell EXCEPT !.font = "Calibri,11"]],
              merged |-> {}]
    IN MergeCells(w, RequirementsBox)

BlockTemplate ==
    LET block == (14..22) \X Cols
        w == [BareTemplate EXCEPT !.cells = [k \in block |-> NewCell] @@ @]
        w1 == MergeCells(w, Range(15, 9, 15, 12))
        w2 == [w1 EXCEPT !.cells[<<15, 9>>].value = Caption]
    IN MergeCells(MergeCells(w2, Range(16, 10, 16, 11)), Range(17, 10, 20, 11))

\* load_excel_template
LoadExcelTemplate(kind) == IF kind = "bare" THEN BareTemplate ELSE BlockTemplate

(***************************************************************************)
(* The OrderRecords the assembler is given.                                *)
(***************************************************************************)
HeaderKeys == {"Client Name", "Order Number", "Foil", "Return of Bulk Containers",
               "Microbiological Analysis"}

ItemKeys == {"Item Name", "Embossing Data", "Products Heating", "Sachet Size",
             "Filling Volume", "Qty", "Required Bulk Quantity"}

ReqsKey == "Specific order requirements"

\* the k-th item of an order: every field names the field and the item
Item(k) == [f \in ItemKeys |-> Str(<<f>> \o Decimal(k))]

Items(n) == [k \in 1..n |-> Item(k)]

Order(n) ==
    [f \in HeaderKeys |-> Str(<<f>>)]
    @@ (ReqsKey :> Str(<<"A", NL, "B", NL, "C">>))
    @@ ("Items" :> PyList(Items(n)))

Without(d, keys) == [f \in DOMAIN d \ keys |-> d[f]]

\* every header field, the requirements and every item field null
NullOrder ==
    [f \in HeaderKeys \cup {ReqsKey} |-> PyNone]
    @@ ("Items" :> PyList([k \in 1..3 |-> [f \in ItemKeys |-> PyNone]]))

\* every key but Items missing, and the items without any key
AbsentOrder == ("Items" :> PyList([k \in 1..3 |-> Without(Item(k), ItemKeys)]))

\* "Items": null
ItemsNullOrder == [Order(3) EXCEPT !["Items"] = PyNone]

\* "Specific order requirements": ""
EmptyReqsOrder == [Order(2) EXCEPT ![ReqsKey] = Empty]

OddOrders == {NullOrder, AbsentOrder, ItemsNullOrder, EmptyReqsOrder}

Orders == {Order(n) : n \in 0..MaxItems} \cup {Order(10)} \cup OddOrders

\* the orders a workbook that was assembled before is assembled with again,
\* besides the order it was assembled with
RerunOrders == {Order(1), Order(2), Order(5), NullOrder}

NoOrder == [none |-> PyNone]

\* {}
EmptyDict == [k \in {} |-> PyNone]

\* the merged ranges of both worksheets
Layout == [v \in Variants |-> wb[v].merged]

(***************************************************************************)
(* Actions.                                                                *)
(***************************************************************************)
Init ==
    /\ tmpl \in TemplateKinds
    /\ iterOrder \in {"asc", "desc"}
    /\ wb = [v \in Variants |-> LoadExcelTemplate(tmpl)]
    /\ result = [v \in Variants |-> NoReport]
    /\ pc = "idle"
    /\ data = NoOrder
    /\ runs = 0
    /\ prev = [data |-> NoOrder, layout |-> [v \in Variants |-> {}]]
    /\ pdf_files = <<>>
    /\ index = 0
    /\ extracted_data = PyNone
    /\ output_folder = [v \in Variants |-> EmptyDict]
    /\ console = <<>>
    /\ attempt = 0
    /\ model_calls = 0
    /\ outcomes = <<>>
    /\ returned = NotCalled

\* process_excel_imputation loads the template anew for every document
LoadTemplate ==
    /\ pc = "idle"
    /\ runs > 0
    /\ wb' = [v \in Variants |-> LoadExcelTemplate(tmpl)]
    /\ result' = [v \in Variants |-> NoReport]
    /\ data' = NoOrder
    /\ runs' = 0
    /\ prev' = [data |-> NoOrder, layout |-> [v \in Variants |-> {}]]
    /\ UNCHANGED <<tmpl, iterOrder, pc>>
    /\ UNCHANGED batch
    /\ UNCHANGED extraction

\* map_data_to_excel(wb, d) is entered, in both scripts
Call(d) ==
    /\ pc = "idle"
    /\ runs < MaxRuns
    /\ runs > 0 => (d = data \/ d \in RerunOrders)
    /\ pc' = "header"
    /\ data' = d
    /\ runs' = runs + 1
    /\ result' = [v \in Variants |-> NoReport]
    /\ prev' = [data |-> data, layout |-> Layout]
    /\ UNCHANGED <<tmpl, iterOrder, wb>>
    /\ UNCHANGED batch
    /\ UNCHANGED extraction

\* script v takes one step, unless an earlier step raised or it has no such step
StepOf(v, step) ==
    IF result[v].raised = "none" /\ \E i \in 1..Len(StepsOf(v)) : StepsOf(v)[i] = step
    THEN LET r == Do(wb[v], StepStatement(v, step, data))
         IN [ws |-> r.ws,
             report |-> IF r.err THEN [result[v] EXCEPT !.raised = step]
                        ELSE [result[v] EXCEPT !.done = @ \cup {step}]]
    ELSE [ws |-> wb[v], report |-> result[v]]

Step(step, next) ==
    /\ pc = step
    /\ \E o \in {[v \in Variants |-> StepOf(v, step)]} :
          /\ wb' = [v \in Variants |-> o[v].ws]
          /\ result' = [v \in Variants |->
                          IF next = "idle" THEN [o[v].report EXCEPT !.returned = "wb"]
                          ELSE o[v].report]
    /\ pc' = next
    /\ UNCHANGED <<tmpl, iterOrder, data, runs, prev>>
    /\ UNCHANGED batch
    /\ UNCHANGED extraction

WriteHeader == Step("header", "requirements")
WriteRequirements == Step("requirements", "provision")
ProvisionRows == Step("provision", "items")
WriteItems == Step("items", "cleanup")
CleanUp == Step("cleanup", "trailing")
RenderTrailing == Step("trailing", "idle")

Next ==
    \/ LoadTemplate
    \/ \E d \in Orders : Call(d)
    \/ WriteHeader
    \/ WriteRequirements
    \/ ProvisionRows
    \/ WriteItems
    \/ CleanUp
    \/ RenderTrailing

Spec == Init /\ [][Next]_vars

(***************************************************************************)
(* The requirements text: map_data_to_excel called on a fresh template     *)
(* with every requirements string of up to MaxLen characters, a null and   *)
(* a missing key.                                                          *)
(***************************************************************************)
MaxLen == 5

ReqStrings == UNION {[1..n -> {"A", NL}] : n \in 0..MaxLen}

ReqOrders ==
    {[Order(0) EXCEPT ![ReqsKey] = Str(q)] : q \in ReqStrings}
    \cup {[Order(0) EXCEPT ![ReqsKey] = PyNone], Without(Order(0), {ReqsKey})}

CallWithRequirements(d) == runs = 0 /\ Call(d)

NextReqs ==
    \/ LoadTemplate
    \/ \E d \in ReqOrders : CallWithRequirements(d)
    \/ WriteHeader
    \/ WriteRequirements
    \/ ProvisionRows
    \/ WriteItems
    \/ CleanUp
    \/ RenderTrailing

ReqSpec == Init /\ [][NextReqs]_vars

(***************************************************************************)
(* safely_unmerge_row_cells called on its own: on a worksheet between two  *)
(* calls of map_data_to_excel, on a row just inserted, and again, on the   *)
(* same row, on the worksheet it returned.                                 *)
(* prev keeps the row and the merged ranges the call was made with.        *)
(***************************************************************************)
RowsOf(ws) == 1..(MaxRow(ws) + 1)

\* the orders the worksheets are assembled with before the call
UnmergeOrders == {Order(1), Order(3)}

\* ws.insert_rows(14 + i), the call that precedes copy_row_format and its
\* safely_unmerge_row_cells(ws, 14 + i) in prepare_product_rows
InsertRow(i) ==
    /\ pc = "idle"
    /\ runs > 0
    /\ wb' = [v \in Variants |-> InsertRows(wb[v], 14 + i)]
    /\ pc' = "inserted"
    /\ prev' = [data |-> [row |-> 14 + i], layout |-> Layout]
    /\ UNCHANGED <<tmpl, iterOrder, result, data, runs>>
    /\ UNCHANGED batch
    /\ UNCHANGED extraction

UnmergeRow(r) ==
    /\ pc \in {"idle", "inserted", "unmerged"}
    /\ pc # "idle" => r = prev.data.row
    /\ wb' = [v \in Variants |-> SafelyUnmergeRowCells(wb[v], r)]
    /\ pc' = "unmerged"
    /\ prev' = [data |-> [row |-> r], layout |-> Layout]
    /\ UNCHANGED <<tmpl, iterOrder, result, data, runs>>
    /\ UNCHANGED batch
    /\ UNCHANGED extraction

NextUnmerge ==
    \/ LoadTemplate
    \/ \E d \in UnmergeOrders : Call(d)
    \/ WriteHeader
    \/ WriteRequirements
    \/ ProvisionRows
    \/ WriteItems
    \/ CleanUp
    \/ RenderTrailing
    \/ \E i \in 0..(MaxItems - 3) : InsertRow(i)
    \/ \E r \in RowsOf(wb["main"]) \cup RowsOf(wb["proc"]) : UnmergeRow(r)

UnmergeSpec == Init /\ [][NextUnmerge]_vars

(***************************************************************************)
(* copy_row_format called on its own, on a worksheet map_data_to_excel     *)
(* returned, with the copy of at most one column raising.  prev keeps the  *)
(* arguments of the call.                                                  *)
(***************************************************************************)
SourceRows == {13, 15}
TargetRows == {14, 16}

CopyRow(source_row, target_row, bad) ==
    /\ pc = "idle"
    /\ runs > 0
    /\ wb' = [v \in Variants |->
                Do(wb[v], CopyRowFormatWith(source_row, target_row, bad)).ws]
    /\ pc' = "copied"
    /\ prev' = [data |-> [source |-> source_row, target |-> target_row, bad |-> bad],
                layout |-> Layout]
    /\ UNCHANGED <<tmpl, iterOrder, result, data, runs>>
    /\ UNCHANGED batch
    /\ UNCHANGED extraction

NextCopy ==
    \/ LoadTemplate
    \/ \E d \in UnmergeOrders : Call(d)
    \/ WriteHeader
    \/ WriteRequirements
    \/ ProvisionRows
    \/ WriteItems
    \/ CleanUp
    \/ RenderTrailing
    \/ \E source_row \in SourceRows, target_row \in TargetRows, bad \in 0..12 :
          CopyRow(source_row, target_row, bad)

CopySpec == Init /\ [][NextCopy]_vars

(***************************************************************************)
(* The batch: process_all_pdfs lists the input folder, and for every PDF   *)
(* file calls process_pdf and, when it returned data,                      *)
(* process_excel_imputation: load the template, map_data_to_excel, save.   *)
(* A file name is a sequence of characters.  pc is "extract" when the loop *)
(* is about to call process_pdf and "done" when process_all_pdfs returned. *)
(***************************************************************************)
MaxFiles == 2

Pdf == <<".", "p", "d", "f">>

\* the names the input folder may hold
FileNames == {<<"a">> \o Pdf, <<"a", ".", "P", "D", "F">>, <<"b">> \o Pdf,
              <<"b", ".", "t", "x", "t">>}

\* os.listdir: the names of the folder, each once, in any order
Listings ==
    {q \in UNION {[1..n -> FileNames] : n \in 0..MaxFiles} :
        \A i, j \in 1..Len(q) : i # j => q[i] # q[j]}

\* str.lower
LowerChar(c) ==
    CASE c = "P" -> "p"
      [] c = "D" -> "d"
      [] c = "F" -> "f"
      [] OTHER -> c

Lower(q) == [i \in 1..Len(q) |-> LowerChar(q[i])] @@ <<>>

\* str.endswith
EndsWith(q, suffix) ==
    /\ Len(q) >= Len(suffix)
    /\ SubSeq(q, Len(q) - Len(suffix) + 1, Len(q)) = suffix

\* [f for f in os.listdir(input_folder) if f.lower().endswith('.pdf')]
PdfFiles(listing) == SelectSeq(listing, LAMBDA f : EndsWith(Lower(f), Pdf))

\* os.path.splitext(name)[0] of a name without a separator: the name up to
\* its last dot, unless only dots precede that dot
SplitextRoot(name) ==
    LET dots == {i \in 1..Len(name) : name[i] = "."}
        dotIndex == IF dots = {} THEN 0 ELSE CHOOSE i \in dots : \A j \in dots : j <= i
    IN IF \E k \in 1..(dotIndex - 1) : name[k] # "."
       THEN SubSeq(name, 1, dotIndex - 1)
       ELSE name

\* '_filled_order_note.xlsx'
Suffix == <<"_", "f", "i", "l", "l", "e", "d", "_", "o", "r", "d", "e", "r", "_",
            "n", "o", "t", "e", ".", "x", "l", "s", "x">>

\* excel_filename = os.path.splitext(pdf_file)[0] + '_filled_order_note.xlsx'
ExcelFilename(pdf_file) == SplitextRoot(pdf_file) \o Suffix

\* what process_pdf returns when it returns data
ExtractedOrders == {Order(3), ItemsNullOrder}

\* what process_pdf returns: None, an empty object or data
Extractions == {PyNone, EmptyDict} \cup ExtractedOrders

SkipsNoneOnly(x) == "t" \in DOMAIN x

\* if not extracted_data
Skips(x) == IF "t" \in DOMAIN x THEN ~Truthy(x) ELSE DOMAIN x = {}

WorkbookKept(v) == wb[v]

\* wb = load_excel_template(template_file)
WorkbookLoaded(v) == LoadExcelTemplate(tmpl)

StopOnError(said) ==
    IF index < Len(pdf_files) /\ said # "error" THEN "extract" ELSE "done"

\* where the loop goes after a file: to the next file, or out after the last
Continue(said) == IF index < Len(pdf_files) THEN "extract" ELSE "done"

\* what process_all_pdfs and process_excel_imputation print of a file
Report(x, said) == [pdf_file |-> pdf_files[index], extracted |-> x, said |-> said]

\* os.listdir, the filter, "if not pdf_files: return"
ListFolder(listing) ==
    /\ pc = "idle"
    /\ index = 0
    /\ runs = 0
    /\ pdf_files' = PdfFiles(listing)
    /\ index' = 1
    /\ pc' = IF pdf_files' = <<>> THEN "done" ELSE "extract"
    /\ UNCHANGED <<tmpl, iterOrder, wb, result, data, runs, prev,
                   extracted_data, output_folder, console>>
    /\ UNCHANGED extraction

\* extracted_data = process_pdf(pdf_path); without data the file is skipped,
\* with data process_excel_imputation loads the template and calls
\* map_data_to_excel
ProcessPdf(x) ==
    /\ pc = "extract"
    /\ extracted_data' = x
    /\ IF Skips(x)
       THEN /\ console' = Append(console, Report(x, "skipping"))
            /\ index' = index + 1
            /\ pc' = Continue("skipping")
            /\ UNCHANGED <<wb, result, data, runs, prev>>
       ELSE /\ wb' = [v \in Variants |-> WorkbookLoaded(v)]
            /\ result' = [v \in Variants |-> NoReport]
            /\ data' = x
            /\ runs' = 1
            /\ prev' = [data |-> NoOrder, layout |-> [v \in Variants |-> {}]]
            /\ pc' = "header"
            /\ UNCHANGED <<index, console>>
    /\ UNCHANGED <<tmpl, iterOrder, pdf_files, output_folder>>
    /\ UNCHANGED extraction

\* wb.save(output_excel) writes the file or raises; process_excel_imputation
\* prints which, and the loop goes on
Save(ok) ==
    /\ pc = "idle"
    /\ index \in 1..Len(pdf_files)
    /\ output_folder' =
          IF ok
          THEN [v \in Variants |->
                  [f \in DOMAIN output_folder[v] \cup {ExcelFilename(pdf_files[index])} |->
                     IF f = ExcelFilename(pdf_files[index])
                     THEN [sheet |-> wb[v], of |-> pdf_files[index]]
                     ELSE output_folder[v][f]]]
          ELSE output_folder
    /\ console' = Append(console, Report(extracted_data, IF ok THEN "created" ELSE "error"))
    /\ index' = index + 1
    /\ pc' = Continue(IF ok THEN "created" ELSE "error")
    /\ UNCHANGED <<tmpl, iterOrder, wb, result, data, runs, prev,
                   pdf_files, extracted_data>>
    /\ UNCHANGED extraction

NextBatch ==
    \/ \E listing \in Listings : ListFolder(listing)
    \/ \E x \in Extractions : ProcessPdf(x)
    \/ WriteHeader
    \/ WriteRequirements
    \/ ProvisionRows
    \/ WriteItems
    \/ CleanUp
    \/ RenderTrailing
    \/ \E ok \in BOOLEAN : Save(ok)

BatchSpec == Init /\ [][NextBatch]_vars

\* the positions of map_data_to_excel
AssemblySteps == {"header", "requirements", "provision", "items", "cleanup", "trailing"}

\* a step of map_data_to_excel returns: pc moves on
StepReturns == pc \in AssemblySteps /\ pc' \in (AssemblySteps \cup {"idle"}) \ {pc}

\* the script is one sequential process and every call it makes returns:
\* the listing, process_pdf (it gives up after max_retries attempts), every
\* step of map_data_to_excel, and wb.save
LiveBatchSpec ==
    /\ BatchSpec
    /\ WF_vars(\E listing \in Listings : ListFolder(listing))
    /\ WF_vars(\E x \in Extractions : ProcessPdf(x))
    /\ WF_pc(StepReturns)
    /\ WF_vars(\E ok \in BOOLEAN : Save(ok))

(***************************************************************************)
(* The extraction call: process_pdf of main.py and of                      *)
(* pdf-to-excel-processor.py (the two differ in initial_delay and in the   *)
(* prompt only) and process_image of extraction.py, which has the same     *)
(* loop.  time.sleep changes no state and is left out.                     *)
(***************************************************************************)
\* def process_pdf(pdf_path, max_retries=5, initial_delay=1)
max_retries == 5

\* range(max_retries) with one value more
AttemptsOneMore == 0..max_retries

\* for attempt in range(max_retries)
Attempts == 0..(max_retries - 1)

\* the character U+0060 of the code fence, which a string of this language
\* cannot hold
Backtick == "GRAVE"

\* the characters str.strip() removes, of those the model has
Whitespace == {" ", NL}

RECURSIVE LStrip(_, _)
LStrip(q, chars) ==
    IF q # <<>> /\ Head(q) \in chars THEN LStrip(Tail(q), chars) ELSE q

RECURSIVE RStrip(_, _)
RStrip(q, chars) ==
    IF q # <<>> /\ q[Len(q)] \in chars THEN RStrip(SubSeq(q, 1, Len(q) - 1), chars) ELSE q

\* str.strip(chars): the characters of the set are removed from both ends
Strip(q, chars) == RStrip(LStrip(q, chars), chars)

\* response.text.strip(), then the strip of the fence with its word json,
\* the strip of the fence, and strip() once more
CleanResponse(text) ==
    Strip(Strip(Strip(Strip(text, Whitespace), {Backtick, "j", "s", "o", "n"}), {Backtick}), Whitespace)

\* the texts the model answers with: an order in a code fence, a bare list,
\* and the bare word null (JSON as it stands, no JSON once 'n' is stripped)
FencedOrder ==
    <<Backtick, Backtick, Backtick, "j", "s", "o", "n", NL, "{", "\"", "I", "t", "e", "m", "s", "\"", ":",
      "[", "]", "}", NL, Backtick, Backtick, Backtick>>
BareList == <<"[", "]">>
BareNull == <<"n", "u", "l", "l">>
ResponseTexts == {FencedOrder, BareList, BareNull}

\* json.loads on the texts that can reach it; every other text raises
\* json.JSONDecodeError
JsonLoads(text) ==
    CASE text = <<"{", "\"", "I", "t", "e", "m", "s", "\"", ":", "[", "]", "}">> ->
            [ok |-> TRUE, value |-> [Items |-> PyList(<<>>)]]
      [] text = <<"[", "]">> -> [ok |-> TRUE, value |-> PyList(<<>>)]
      [] text = <<"n", "u", "l", "l">> -> [ok |-> TRUE, value |-> PyNone]
      [] OTHER -> [ok |-> FALSE, value |-> PyNone]

\* str(e) of the exceptions the model call raises: a rate limit, a server
\* error, and an error whose text holds the digits 429 among others
ErrorMessages == {<<"4", "2", "9">>, <<"5", "0", "0">>, <<"1", "4", "2", "9", "0">>}

\* sub in q
Contains(q, sub) ==
    \E i \in 1..(Len(q) - Len(sub) + 1) : SubSeq(q, i, i + Len(sub) - 1) = sub

\* what one pass of the loop can meet: the file cannot be read, the model
\* call raises, or the model call answers
AttemptOutcomes ==
    {[kind |-> "unreadable", text |-> <<>>]}
      \cup {[kind |-> "raised", text |-> m] : m \in ErrorMessages}
      \cup {[kind |-> "response", text |-> t] : t \in ResponseTexts}

\* "if attempt < max_retries - 1: continue; return None"
ContinueOrNone(a) ==
    IF a < max_retries - 1
    THEN [calls |-> 1, returns |-> FALSE, value |-> PyNone]
    ELSE [calls |-> 1, returns |-> TRUE, value |-> PyNone]

\* the body of the loop for one value of attempt, meeting outcome o: the
\* model calls it makes, whether it returns, and what
LoopBody(a, o) ==
    CASE o.kind = "unreadable" -> [calls |-> 0, returns |-> TRUE, value |-> PyNone]
      [] o.kind = "raised" ->
            IF Contains(o.text, <<"4", "2", "9">>)
            THEN [calls |-> 1, returns |-> FALSE, value |-> PyNone]
            ELSE ContinueOrNone(a)
      [] o.kind = "response" ->
            LET parsed == JsonLoads(CleanResponse(o.text))
            IN IF parsed.ok
               THEN [calls |-> 1, returns |-> TRUE, value |-> parsed.value]
               ELSE ContinueOrNone(a)

\* process_pdf(pdf_path) is called
EnterProcessPdf ==
    /\ pc = "idle"
    /\ runs = 0
    /\ index = 0
    /\ returned = NotCalled
    /\ attempt' = 0
    /\ model_calls' = 0
    /\ outcomes' = <<>>
    /\ returned' = Running
    /\ UNCHANGED <<tmpl, iterOrder, wb, result, pc, data, runs, prev>>
    /\ UNCHANGED batch

\* one pass of the loop; when the loop runs out, "Failed to process PDF
\* after {max_retries} retries." and return None
Attempt(o) ==
    /\ returned = Running
    /\ attempt \in Attempts
    /\ LET body == LoopBody(attempt, o)
       IN /\ model_calls' = model_calls + body.calls
          /\ outcomes' = Append(outcomes, o)
          /\ attempt' = IF body.returns THEN attempt ELSE attempt + 1
          /\ returned' = IF body.returns THEN Return(body.value)
                         ELSE IF attempt + 1 \in Attempts THEN Running
                         ELSE Return(PyNone)
    /\ UNCHANGED <<tmpl, iterOrder, wb, result, pc, data, runs, prev>>
    /\ UNCHANGED batch

NextRetry ==
    \/ EnterProcessPdf
    \/ \E o \in AttemptOutcomes : Attempt(o)

RetrySpec == Init /\ [][NextRetry]_vars

\* every model call comes back, with an answer or with an exception, and the
\* loop then goes on
LiveRetrySpec ==
    /\ RetrySpec
    /\ WF_vars(\E o \in AttemptOutcomes : Attempt(o))

(***************************************************************************)
(* Vocabulary of the properties.                                           *)
(***************************************************************************)
\* the latest call has returned
Returned == pc = "idle" /\ runs > 0

\* the latest call was made on a freshly loaded template
OnFreshTemplate == runs = 1

\* the item list of an order: empty when Items is missing or null
ItemList(d) ==
    IF "Items" \in DOMAIN d /\ d["Items"].t = "list" THEN d["Items"].l ELSE <<>>

ItemCount == Len(ItemList(data))

\* Items is a list, or missing (and so the empty list)
ItemsGiven == "Items" \notin DOMAIN data \/ data["Items"].t = "list"

\* the merge I<r>:L<r> that holds the caption
HeaderMerge(r) == Range(r, 9, r, 12)

\* the rows whose merge I:L is in the collection
HeaderRows(ws) == {m.r1 : m \in {x \in ws.merged : x.r1 = x.r2 /\ x.c1 = 9 /\ x.c2 = 12}}

ValueAt(ws, r, c) == IF Exists(ws, r, c) THEN ws.cells[<<r, c>>].value ELSE PyNone

\* the rows from 12 on whose column A holds a row-number label
LabelledRows(ws) ==
    {r \in 12..MaxRow(ws) : \E k \in 1..(MaxRow(ws)) : ValueAt(ws, r, 1) = Label(k)}

\* the seven item fields and the columns set_product_data writes them to
ItemColumn ==
    [f \in ItemKeys |->
        CASE f = "Item Name" -> 2
          [] f = "Embossing Data" -> 3
          [] f = "Products Heating" -> 5
          [] f = "Sachet Size" -> 6
          [] f = "Filling Volume" -> 7
          [] f = "Qty" -> 8
          [] f = "Required Bulk Quantity" -> 9]

\* the six style attributes of the cell at <<r, c>>
StyleAt(ws, r, c) == [a \in StyleAttrs |-> ws.cells[<<r, c>>][a]]

\* the number of item rows prepare_product_rows is to leave
Floor2(n) == IF n > 2 THEN n ELSE 2

\* the rows of column C that hold the five header fields
HeaderCellRow ==
    [f \in HeaderKeys |->
        CASE f = "Client Name" -> 3
          [] f = "Order Number" -> 4
          [] f = "Foil" -> 5
          [] f = "Return of Bulk Containers" -> 6
          [] f = "Microbiological Analysis" -> 7]

\* a field that is null or whose key is absent
Missing(d, f) == f \notin DOMAIN d \/ d[f] = PyNone

\* the row that receives the first item
FirstItemRow == 12

\* the last item row each script derives from the order in hand
LastRowOf(v) == IF v = "main" THEN LastProductRow(ItemsOf(data)) ELSE LastItemRow(ItemsOf(data))

\* the three merges of the trailing block rendered for last item row L
BlockMerges(L) ==
    {HeaderMerge(L + 2), Range(L + 3, 10, L + 3, 11), Range(L + 4, 10, L + 7, 11)}

\* the merged ranges with a row in lo..hi
MergesIn(ws, lo, hi) == {m \in ws.merged : \E r \in lo..hi : Touches(m, r)}

(***************************************************************************)
(* Properties.                                                             *)
(***************************************************************************)

C2_ItemsInInputOrder ==
    (Returned /\ ItemsGiven) =>
        /\ \A k \in 1..ItemCount :
              /\ ValueAt(wb["proc"], 11 + k, 1) = Label(k)
              /\ \A f \in ItemKeys :
                    LET item == ItemList(data)[k] IN
                    (f \in DOMAIN item /\ item[f].t = "str")
                        => ValueAt(wb["proc"], 11 + k, ItemColumn[f]) = item[f]
        /\ ItemCount >= 1 => LabelledRows(wb["proc"]) = 12..(11 + ItemCount)

C2_FiveItemsStored ==
    /\ Returned /\ data = Order(5)
    /\ ValueAt(wb["proc"], 16, 1) = Label(5)
    /\ ValueAt(wb["proc"], 16, 2) = Item(5)["Item Name"]
    /\ ValueAt(wb["proc"], 12, 2) = Item(1)["Item Name"]

\* C3: prepare_product_rows (both scripts) on a fresh template leaves
\* max(item_count, 2) item rows, labelled 1. .. in the rows from 12 on, and
\* every row after the first two carries the six style attributes of row 13.
C3_ProvisionedRows ==
    (pc = "items" /\ OnFreshTemplate /\ ItemsGiven) =>
        \A v \in Variants :
            /\ result[v].raised = "none"
            /\ LabelledRows(wb[v]) = 12..(11 + Floor2(ItemCount))
            /\ \A r \in 14..(11 + ItemCount) : \A c \in Cols :
                  /\ Exists(wb[v], r, c)
                  /\ StyleAt(wb[v], r, c) = StyleAt(wb[v], 13, c)
                  /\ StyleAt(wb[v], r, 12)["fill"] = RedFill

C3_TenRowsProvisioned ==
    /\ pc = "items" /\ OnFreshTemplate /\ data = Order(10)
    /\ \A v \in Variants :
          /\ LabelledRows(wb[v]) = 12..21
          /\ StyleAt(wb[v], 21, 2) = StyleAt(wb[v], 13, 2)
          /\ StyleAt(wb[v], 21, 2) # StyleAt(wb[v], 12, 2)

C5_SecondCallSameLayout ==
    (Returned /\ runs = 2 /\ prev.data = data) =>
        \A v \in Variants : wb[v].merged = prev.layout[v]

\* C6: after the cleanup of pdf-to-excel-processor.py no cell and no merged
\* range lies past last_item_row; when the call returns, the item rows are
\* exactly those of the order in hand and every merge from row 12 on belongs
\* to the trailing block rendered by this call, whatever an earlier call with
\* more items left on the sheet.
C6_StaleRowsRemoved ==
    LET L == LastItemRow(ItemsOf(data)) IN
    ItemsGiven =>
        /\ pc = "trailing" =>
              /\ result["proc"].raised = "none"
              /\ MaxRow(wb["proc"]) <= L
              /\ \A m \in wb["proc"].merged : m.r2 <= L
        /\ Returned =>
              /\ \A m \in wb["proc"].merged : m.r2 >= 12 => m \in BlockMerges(L)
              /\ ItemCount >= 1 => LabelledRows(wb["proc"]) = 12..(11 + ItemCount)

C6_SixThenTwo ==
    /\ Returned /\ runs = 2 /\ prev.data = Order(6) /\ data = Order(2)
    /\ BlockMerges(17) \subseteq prev.layout["proc"]
    /\ LabelledRows(wb["proc"]) = 12..13
    /\ MergesIn(wb["proc"], 14, 17) = {HeaderMerge(15), Range(16, 10, 16, 11), Range(17, 10, 20, 11)}
    /\ wb["proc"].merged \cap BlockMerges(17) = {}

\* C7: a header field or an item field that is null or absent leaves the
\* empty string in its cell, and no such input (a null Items included) makes
\* map_data_to_excel of pdf-to-excel-processor.py skip a step.
C7_MissingRendersEmpty ==
    Returned =>
        /\ \A f \in HeaderKeys :
              Missing(data, f) => ValueAt(wb["proc"], HeaderCellRow[f], 3) = Empty
        /\ \A k \in 1..ItemCount : \A f \in ItemKeys :
              Missing(ItemList(data)[k], f)
                  => ValueAt(wb["proc"], 11 + k, ItemColumn[f]) = Empty
        /\ result["proc"].raised = "none"

\* C8: in both scripts every step of map_data_to_excel is executed, whatever
\* an earlier step raised, and the call returns the workbook.
C8_EveryStepExecutes ==
    Returned =>
        \A v \in Variants :
            /\ result[v].returned = "wb"
            /\ \A i \in 1..Len(StepsOf(v)) : StepsOf(v)[i] \in result[v].done

\* C9: after a call on a fresh template or on a sheet assembled before, in
\* both scripts, exactly one merge I:L of one row is on the sheet, and its row
\* is the one derived from the item count of the order in hand.
C9_ExactlyOneCaptionMerge ==
    (Returned /\ ItemsGiven) =>
        \A v \in Variants : HeaderRows(wb[v]) = {LastRowOf(v) + 2}

\* C10 (as stated): the merges of the rows L+1 .. L+9 are a merge of the whole
\* row L+2, columns A..L, with the caption, J:K in row L+3 and J:K over the
\* rows L+4 .. L+7.
C10_FullWidthCaptionMerge ==
    LET L == LastItemRow(ItemsOf(data)) IN
    (Returned /\ ItemsGiven) =>
        MergesIn(wb["proc"], L + 1, L + 9) =
            {Range(L + 2, 1, L + 2, 12), Range(L + 3, 10, L + 3, 11), Range(L + 4, 10, L + 7, 11)}

\* C10 (amended): the merges of the rows L+1 .. L+9 are I:L in row L+2, whose
\* cell I holds the caption, J:K in row L+3 and J:K over the rows L+4 .. L+7;
\* the rows L+1, L+8 and L+9 hold no merge.
C10_BlockMergesExactly ==
    LET L == LastItemRow(ItemsOf(data)) IN
    (Returned /\ ItemsGiven) =>
        /\ MergesIn(wb["proc"], L + 1, L + 9) = BlockMerges(L)
        /\ ValueAt(wb["proc"], L + 2, 9) = Caption
        /\ \A r \in {L + 1, L + 8, L + 9} : MergesIn(wb["proc"], r, r) = {}

C10_BlockOfThreeItems ==
    /\ Returned /\ data = Order(3)
    /\ MergesIn(wb["proc"], 15, 23) = {Range(16, 9, 16, 12), Range(17, 10, 17, 11), Range(18, 10, 21, 11)}
    /\ ValueAt(wb["proc"], 16, 9) = Caption
    /\ IsMerged(wb["proc"], 16, 12) /\ ~Exists(wb["proc"], 24, 1)

\* the requirements step of the latest call is done
RequirementsWritten == pc \in {"provision", "items", "cleanup", "trailing"} \/ Returned

\* the requirements text of the order in hand: '' when null or missing
RequirementsText ==
    LET s == Get(data, ReqsKey, Empty) IN IF s.t = "str" THEN s ELSE Empty

\* C11: once the requirements step is done, cell I4 holds the requirements
\* string of the order unchanged (split on line breaks and joined again),
\* the empty string when the string is empty, null or missing; its alignment
\* wraps the text and I4:L9 is merged.  Both scripts.
C11_RequirementsRoundTrip ==
    RequirementsWritten =>
        \A v \in Variants :
            /\ ValueAt(wb[v], 4, 9) = RequirementsText
            /\ wb[v].cells[<<4, 9>>].alignment = "left,top,wrap"
            /\ RequirementsBox \in wb[v].merged

C11_BlankLinesKept ==
    /\ Returned
    /\ Get(data, ReqsKey, Empty) = Str(<<"A", NL, NL, "A", NL>>)
    /\ \A v \in Variants : ValueAt(wb[v], 4, 9) = Str(<<"A", NL, NL, "A", NL>>)

\* prepare_product_rows is about to run on a list of items
Provisioning == pc = "provision" /\ ItemsGiven

\* C12: for an item count of 0, 1 or 2 prepare_product_rows leaves the
\* worksheet as it was, cells and merged ranges alike (both scripts, fresh
\* and reused sheets).
C12_NoChangeUpToTwoItems ==
    [][(Provisioning /\ ItemCount <= 2) => wb' = wb]_vars

C12_TwoItemsProvisioned ==
    /\ pc = "items" /\ data = Order(2) /\ OnFreshTemplate /\ tmpl = "block"
    /\ \A v \in Variants :
          /\ "provision" \in result[v].done
          /\ MaxRow(wb[v]) = 22
          /\ LabelledRows(wb[v]) = 12..13
          /\ HeaderMerge(15) \in wb[v].merged

\* C13: for an item count n > 2 prepare_product_rows inserts n - 2 rows at
\* the rows 14 .. 11 + n: every cell from row 14 on is found n - 2 rows
\* lower, the sheet is n - 2 rows longer, and column A of the rows
\* 14 .. 11 + n holds the labels 3. .. n. in ascending order (both scripts).
C13_SequentialInsertions ==
    [][(Provisioning /\ ItemCount > 2) =>
         \A v \in Variants :
            /\ \A k \in DOMAIN wb[v].cells :
                  k[1] >= 14 =>
                     /\ Exists(wb'[v], k[1] + ItemCount - 2, k[2])
                     /\ wb'[v].cells[<<k[1] + ItemCount - 2, k[2]>>] = wb[v].cells[k]
            /\ MaxRow(wb'[v]) = MaxRow(wb[v]) + ItemCount - 2
            /\ \A r \in 14..(11 + ItemCount) : ValueAt(wb'[v], r, 1) = Label(r - 11)
            /\ wb'[v].merged \subseteq wb[v].merged]_vars

C13_FiveItemsProvisioned ==
    /\ pc = "items" /\ data = Order(5) /\ OnFreshTemplate /\ tmpl = "block"
    /\ \A v \in Variants :
          /\ MaxRow(wb[v]) = 25
          /\ ValueAt(wb[v], 14, 1) = Label(3)
          /\ ValueAt(wb[v], 16, 1) = Label(5)
          /\ ValueAt(wb[v], 18, 9) = Caption

\* the merged ranges of ws with row r in their span
Spanning(ws, r) == {m \in ws.merged : Touches(m, r)}

\* C14: after safely_unmerge_row_cells(ws, r), in both scripts, no merged
\* range spans row r, the ranges that did not span r are the ranges of the
\* worksheet, and one more call on row r leaves the worksheet as it is.
C14_RowDissolvedOnce ==
    pc = "unmerged" =>
        \A v \in Variants :
            LET r == prev.data.row IN
            /\ Spanning(wb[v], r) = {}
            /\ wb[v].merged = {m \in prev.layout[v] : ~Touches(m, r)}
            /\ SafelyUnmergeRowCells(wb[v], r) = wb[v]

C14_NotesBoxDissolved ==
    /\ pc = "unmerged" /\ prev.data.row = 17 /\ data = Order(1)
    /\ Range(16, 10, 19, 11) \in prev.layout["proc"]
    /\ wb["proc"].merged = prev.layout["proc"] \ {Range(16, 10, 19, 11)}
    /\ HeaderMerge(14) \in wb["proc"].merged
    /\ ~IsMerged(wb["proc"], 18, 10)

\* C15: safely_unmerge_row_cells returns normally on every worksheet and
\* row, a row without merges and a row just dissolved included; a range
\* whose unmerge_cells raises is skipped, and every other range collected
\* for the row is still taken out of the merged ranges.
C15_NeverRaisesAndGoesOn ==
    \A v \in Variants : \A r \in RowsOf(wb[v]) :
        LET o == SafelyUnmergeOutcome(wb[v], r) IN
        /\ ~o.err
        /\ Spanning(o.ws, r) = {}
        /\ Spanning(wb[v], r) = {} => o.ws = wb[v]

C15_FailingRangeSkipped ==
    /\ pc = "unmerged" /\ prev.data.row = 16
    /\ {HeaderMerge(16), Range(16, 10, 16, 11)} \subseteq prev.layout["main"]
    /\ Spanning(wb["main"], 16) = {}
    /\ \A c \in Cols : ~Exists(wb["main"], 16, c)
    /\ HeaderMerge(15) \in wb["main"].merged

\* C16: after copy_row_format(ws, source, target) in which the copy of one
\* column raised, every other column whose source cell has a style carries
\* the source cell's six style attributes in the target row (column L but
\* for its fill), and the fill of column L of the target row is the solid
\* red, whatever column L of the source row holds and whichever column
\* raised.
C16_OnlyBadColumnSkipped ==
    pc = "copied" =>
        \A v \in Variants :
            LET a == prev.data IN
            /\ \A c \in Cols \ {a.bad} :
                  /\ Exists(wb[v], a.source, c) /\ Exists(wb[v], a.target, c)
                  /\ HasStyle(wb[v].cells[<<a.source, c>>]) =>
                        \A attr \in StyleAttrs :
                            (c = 12 /\ attr = "fill")
                            \/ wb[v].cells[<<a.target, c>>][attr]
                                 = wb[v].cells[<<a.source, c>>][attr]
            /\ Exists(wb[v], a.target, 12)
            /\ wb[v].cells[<<a.target, 12>>].fill = RedFill

C16_ColumnThreeRaised ==
    /\ pc = "copied" /\ prev.data = [source |-> 15, target |-> 14, bad |-> 3]
    /\ data = Order(3)
    /\ wb["proc"].cells[<<15, 12>>].fill # RedFill
    /\ wb["proc"].cells[<<14, 12>>].fill = RedFill
    /\ wb["proc"].cells[<<14, 4>>].alignment = wb["proc"].cells[<<15, 4>>].alignment
    /\ wb["proc"].cells[<<14, 4>>].alignment # wb["proc"].cells[<<14, 3>>].alignment

\* process_pdf returned a failure: None or an empty result
NoData(x) == DOMAIN x = {} \/ ("t" \in DOMAIN x /\ x.t = "none")

\* process_excel_imputation is running, or has returned, for the file at index
Assembling ==
    \/ pc \in AssemblySteps
    \/ pc = "idle" /\ index >= 1

\* the files of a folder that were saved for the input file f
SavedFor(folder, f) == {g \in DOMAIN folder : folder[g].of = f}

\* C17: in process_all_pdfs the assembler runs for a file only on the data
\* process_pdf returned for it; when process_pdf returns None or an empty
\* result the workbooks and the output folder stay as they are, nothing is
\* saved for the file, and the loop is at the next file (or through).
C17_AssemblerOnlyWithData ==
    [][ /\ Assembling' => ~NoData(extracted_data') /\ data' = extracted_data'
        /\ (pc = "extract" /\ NoData(extracted_data')) =>
              /\ ~Assembling'
              /\ wb' = wb
              /\ output_folder' = output_folder
              /\ \A v \in Variants : SavedFor(output_folder'[v], pdf_files[index]) = {}
              /\ index' = index + 1
              /\ pc' = IF index < Len(pdf_files) THEN "extract" ELSE "done"
      ]_vars

\* an empty result and a None were skipped and the file after them was assembled
C17_SkippedThenAssembled ==
    /\ Len(console) = 2
    /\ NoData(console[1].extracted)
    /\ console[1].said = "skipping"
    /\ console[2].said = "created"
    /\ \E i \in 1..2 : DOMAIN console[i].extracted = {}

\* process_all_pdfs has returned
BatchDone == pc = "done"

\* every file of the batch was attempted, in the order of the listing
AllAttempted ==
    /\ Len(console) = Len(pdf_files)
    /\ \A i \in 1..Len(pdf_files) : console[i].pdf_file = pdf_files[i]

\* C18: every batch comes to its end with every one of its k files
\* attempted: whatever happened to a file (no data extracted, an error
\* inside map_data_to_excel, a failed save), the files after it are attempted
\* and the loop ends after the k-th.
C18_EveryDocumentAttempted == <>(BatchDone /\ AllAttempted)

\* the batch ended after a first file whose assembly raised and whose save
\* failed and a second file without data
C18_FailuresThenDone ==
    /\ BatchDone
    /\ Len(pdf_files) = 2
    /\ console[1].extracted = ItemsNullOrder
    /\ console[1].said = "error"
    /\ console[2].said = "skipping"

\* the sheet script v makes of the template and the OrderRecord d alone
Assembled(v, d) == Do(LoadExcelTemplate(tmpl), SBlock(MapDataToExcel(v, d))).ws

\* the files of script v that the step has written
Written(v) ==
    {f \in DOMAIN output_folder'[v] :
        f \notin DOMAIN output_folder[v] \/ output_folder'[v][f] # output_folder[v][f]}

\* C19: the sheet saved for a file is the one the script makes of the
\* template and that file's OrderRecord alone, whatever files the batch
\* went through before it and whatever became of them.
C19_SheetOfTemplateAndOrderOnly ==
    [][\A v \in Variants : \A f \in Written(v) :
          output_folder'[v][f].sheet = Assembled(v, extracted_data)]_vars

\* a file without items was saved after a file with three items
C19_SavedAfterAnother ==
    /\ Len(console) = 2
    /\ console[1].extracted = Order(3)
    /\ console[2].extracted = ItemsNullOrder
    /\ console[2].said = "created"
    /\ \A v \in Variants : SavedFor(output_folder[v], pdf_files[2]) # {}

\* the files the batch reported as created
Created == {i \in 1..Len(console) : console[i].said = "created"}

\* C20: every input file that was processed successfully has its own file
\* in the output folder, named <base name>_filled_order_note.xlsx and holding
\* its sheet: no two input files of a batch share an output file.
C20_OwnOutputFile ==
    \A v \in Variants : \A i \in Created :
        /\ ExcelFilename(console[i].pdf_file) \in DOMAIN output_folder[v]
        /\ output_folder[v][ExcelFilename(console[i].pdf_file)].of = console[i].pdf_file

(***************************************************************************)
(* The order of the operations inside a step.  Trace runs a sequence of    *)
(* statements as Exec does and keeps, for every call on the worksheet it   *)
(* comes to, the call and the worksheet the call found.                    *)
(***************************************************************************)
RECURSIVE Trace(_, _)
Trace(ws, prog) ==
    IF prog = <<>> THEN [ws |-> ws, err |-> FALSE, log |-> <<>>]
    ELSE LET st == Head(prog)
             r == CASE st.op = "block" -> Trace(ws, st.body)
                    [] st.op = "try"   -> [Trace(ws, st.body) EXCEPT !.err = FALSE]
                    [] st.op = "clean" -> Trace(ws, CleanExtraRows(ws, st.last_item_row))
                    [] OTHER -> LET d == Do(ws, st)
                                IN [ws |-> d.ws, err |-> d.err,
                                    log |-> <<[st |-> st, ws |-> ws]>>]
         IN IF r.err THEN r
            ELSE LET t == Trace(r.ws, Tail(prog))
                 IN [ws |-> t.ws, err |-> t.err, log |-> r.log \o t.log]

\* the calls script v makes on its worksheet in the step it is about to take
StepLog(v) ==
    IF pc \in AssemblySteps /\ result[v].raised = "none"
       /\ \E i \in 1..Len(StepsOf(v)) : StepsOf(v)[i] = pc
    THEN Trace(wb[v], <<StepStatement(v, pc, data)>>).log
    ELSE <<>>

\* the rows a call inserts at, deletes or writes a value in
RowsChanged(e) ==
    CASE e.st.op = "insert" -> {e.st.idx}
      [] e.st.op = "insert_if_beyond" ->
            IF e.st.row > MaxRow(e.ws) THEN {e.st.row} ELSE {}
      [] e.st.op = "delete" -> e.st.idx..(e.st.idx + e.st.amount - 1)
      [] e.st.op \in {"value", "assign"} -> {e.st.r}
      [] OTHER -> {}

\* the ranges merged by the calls before the k-th
Established(log, k) == {log[j].st.rg : j \in {i \in 1..(k - 1) : log[i].st.op = "merge"}}

\* the merged ranges the k-th call finds that the step did not merge itself
Stale(log, k) == log[k].ws.merged \ Established(log, k)

\* C21: in prepare_product_rows, the cleanup and the trailing block of
\* pdf-to-excel-processor.py, no call inserts at, deletes or writes into a
\* row that a merged range left from before the step still touches; in
\* particular every insert_rows(14 + i) finds row 14 + i free of merges.
C21_DissolvedBeforeRowChange ==
    pc \in {"provision", "cleanup", "trailing"} =>
        LET log == StepLog("proc") IN
        \A k \in 1..Len(log) : \A r \in RowsChanged(log[k]) :
            \A m \in Stale(log, k) : ~Touches(m, r)

\* the positions in a log of the calls of one kind on row r
Inserts(log, r) == {k \in 1..Len(log) : log[k].st.op = "insert" /\ log[k].st.idx = r}
Dissolves(log, r) == {k \in 1..Len(log) : log[k].st.op = "unmerge_row" /\ log[k].st.row = r}
Copies(log, r) == {k \in 1..Len(log) : log[k].st.op = "copy" /\ log[k].st.target_row = r}
Labels(log, r) ==
    {k \in 1..Len(log) : log[k].st.op = "value" /\ log[k].st.r = r /\ log[k].st.c = 1}

\* C22: for every row prepare_product_rows inserts, in both scripts, the
\* calls come in this order: the insertion, the dissolution of the merges
\* touching the row, the copy of the style of row 13 in every column A..L,
\* the label; and no style is copied onto a row a merged range touches.
C22_DissolveCopyLabel ==
    pc = "provision" =>
        \A v \in Variants :
            LET log == StepLog(v) IN
            \A r \in {log[k].st.idx : k \in {j \in 1..Len(log) : log[j].st.op = "insert"}} :
                /\ Cardinality(Inserts(log, r)) = 1
                /\ Cardinality(Dissolves(log, r)) = 1
                /\ Cardinality(Copies(log, r)) = 12
                /\ Cardinality(Labels(log, r)) = 1
                /\ \A i \in Inserts(log, r), d \in Dissolves(log, r),
                      c \in Copies(log, r), l \in Labels(log, r) :
                        /\ i < d /\ d < c /\ c < l
                        /\ log[c].st.source_row = 13
                        /\ \A m \in log[c].ws.merged : ~Touches(m, r)
                        /\ log[l].st.v = Label(r - 11)

\* a workbook assembled before is about to be given three more rows, at
\* rows that merged ranges touch
C22_InsertingIntoMergedRows ==
    /\ pc = "provision"
    /\ runs = 2
    /\ ItemCount = 5
    /\ \A v \in Variants : \E m \in wb[v].merged : Touches(m, 15)

\* the rows of a range
RangeRows(rg) == (rg.r1)..(rg.r2)

\* C23: whenever the trailing block is rendered, in either script, every
\* merge_cells call finds the rows of its range free of merged ranges: the
\* ranges touching them were dissolved before, whatever the sheet held and
\* whatever the item count was in the run before.
C23_DissolvedBeforeMerge ==
    pc = "trailing" =>
        \A v \in Variants :
            LET log == StepLog(v) IN
            \A k \in 1..Len(log) : log[k].st.op = "merge" =>
                \A r \in RangeRows(log[k].st.rg) :
                    \A m \in log[k].ws.merged : ~Touches(m, r)

\* the positions in a log of merge_cells('I4:L9') and of the write to I4
BoxMerges(log) == {k \in 1..Len(log) : log[k].st.op = "merge" /\ log[k].st.rg = RequirementsBox}
BoxWrites(log) ==
    {k \in 1..Len(log) : log[k].st.op = "assign" /\ log[k].st.r = 4 /\ log[k].st.c = 9}

\* two ranges share a cell
Overlap(a, b) == a.r1 <= b.r2 /\ b.r1 <= a.r2 /\ a.c1 <= b.c2 /\ b.c1 <= a.c2

\* C24: in every assembly, in both scripts, merge_cells('I4:L9') is called
\* on a sheet where I4:L9 is not merged (a merge found there was dissolved
\* before), the requirements text is written after that call, and the step
\* leaves I4:L9 as the one merged range over the box.
C24_BoxDissolvedMergedWritten ==
    pc = "requirements" =>
        \A v \in Variants :
            LET log == StepLog(v)
                after == Trace(wb[v], <<StepStatement(v, pc, data)>>).ws
            IN result[v].raised = "none" =>
                /\ Cardinality(BoxMerges(log)) = 1
                /\ Cardinality(BoxWrites(log)) = 1
                /\ \A k \in BoxMerges(log) :
                      /\ RequirementsBox \notin log[k].ws.merged
                      /\ \A w \in BoxWrites(log) : k < w
                /\ {m \in after.merged : Overlap(m, RequirementsBox)} = {RequirementsBox}

\* the rows the calls of a log write a value in
RowsWritten(log) ==
    {log[k].st.r : k \in {j \in 1..Len(log) : log[j].st.op \in {"value", "assign"}}}

\* the item whose name a log writes to column B of row r
NamesWritten(log, r) ==
    {log[k].st.v : k \in {j \in 1..Len(log) :
        log[j].st.op = "value" /\ log[j].st.r = r /\ log[j].st.c = 2}}

\* the item step is about to run in both scripts
WritingItems == pc = "items" /\ ItemsGiven /\ \A v \in Variants : result[v].raised = "none"

\* C25, as stated: the items go to the rows first_item_row + 1 ..
\* last_item_row with last_item_row = first_item_row + item_count - 1 (12 for
\* no item), and that range has item_count rows.
C25_RowsFromFirstPlusOne ==
    WritingItems =>
        LET last_item_row == IF ItemCount >= 1 THEN FirstItemRow + ItemCount - 1 ELSE 12
        IN \A v \in Variants :
              /\ RowsWritten(StepLog(v)) = (FirstItemRow + 1)..last_item_row
              /\ Cardinality((FirstItemRow + 1)..last_item_row) = ItemCount

\* C25, amended: both scripts write the items, in input order, into exactly
\* the rows first_item_row .. first_item_row + item_count - 1, item_count
\* rows; pdf-to-excel-processor.py takes last_item_row to be the last of
\* them for item_count >= 1 and 12 for no item, main.py takes 11 + item_count
\* for every item_count.
C25_RowsFromFirstItemRow ==
    WritingItems =>
        LET last == FirstItemRow + ItemCount - 1
            items == ItemsOf(data)
        IN /\ \A v \in Variants :
                 /\ RowsWritten(StepLog(v)) = FirstItemRow..last
                 /\ \A k \in 1..ItemCount :
                       NamesWritten(StepLog(v), FirstItemRow + k - 1)
                          = {Get(ItemList(data)[k], "Item Name", Empty)}
           /\ Cardinality(FirstItemRow..last) = ItemCount
           /\ LastItemRow(items) = IF ItemCount >= 1 THEN last ELSE 12
           /\ LastProductRow(items) = last

\* four items are about to be written, on a workbook assembled before
C25_FourItemsToWrite ==
    /\ WritingItems
    /\ ItemCount = 4
    /\ runs = 2
    /\ RowsWritten(StepLog("proc")) = 12..15

\* the columns set_product_data writes to
WrittenColumns == {1, 2, 3, 5, 6, 7, 8, 9, 10}

\* the positions in a log of the value writes to row r
Writes(log, r) == {k \in 1..Len(log) : log[k].st.op = "value" /\ log[k].st.r = r}

\* C26: for every item, set_product_data (both scripts) first dissolves the
\* merges touching its row r, then writes the label "{r - 11}." to column A,
\* the seven item fields to B, C, E, F, G, H, I and "/" to J; no cell value
\* outside the item rows changes, and none in the columns D, K, L.
C26_ItemRowWrittenAlone ==
    [][WritingItems =>
        \A v \in Variants :
            LET log == StepLog(v)
                rows == 1..(IF MaxRow(wb[v]) > MaxRow(wb'[v])
                            THEN MaxRow(wb[v]) ELSE MaxRow(wb'[v]))
                itemRows == 12..(11 + ItemCount)
            IN /\ RowsWritten(log) \subseteq itemRows
               /\ \A r \in itemRows :
                     LET item == ItemList(data)[r - 11] IN
                     /\ Cardinality(Dissolves(log, r)) = 1
                     /\ {log[k].st.c : k \in Writes(log, r)} = WrittenColumns
                     /\ \A d \in Dissolves(log, r), k \in Writes(log, r) : d < k
                     /\ ValueAt(wb'[v], r, 1) = Label(r - 11)
                     /\ ValueAt(wb'[v], r, 10) = Slash
                     /\ \A f \in ItemKeys :
                           ValueAt(wb'[v], r, ItemColumn[f]) = Get(item, f, Empty)
               /\ \A r \in rows : \A c \in Cols :
                     (r \notin itemRows \/ c \notin WrittenColumns)
                        => ValueAt(wb'[v], r, c) = ValueAt(wb[v], r, c)
      ]_vars

\* C27: in every sheet map_data_to_excel of pdf-to-excel-processor.py
\* returns, whether it started from the template or from a sheet assembled
\* before, no two merged ranges share a cell.
C27_NoOverlappingMerges ==
    Returned =>
        \A a, b \in wb["proc"].merged : a # b => ~Overlap(a, b)

\* a sheet assembled for five items was assembled again for one
C27_ShrunkBlockReturned ==
    /\ Returned
    /\ runs = 2
    /\ Len(ItemList(prev.data)) = 5
    /\ ItemCount = 1
    /\ HeaderMerge(14) \in wb["proc"].merged

\* the rows at or above last_item_row of the call under way
KeptRows == 1..(IF ItemCount > 0 THEN 11 + ItemCount ELSE 12)

\* the cleanup or the trailing block of pdf-to-excel-processor.py is next
CleaningOrRendering ==
    pc \in {"cleanup", "trailing"} /\ result["proc"].raised = "none"

\* C28: the stale-row cleanup and the rendering of the trailing block of
\* pdf-to-excel-processor.py change no value in a row at or above
\* last_item_row: the header cells C3..C7, the requirements cell I4 and the
\* item rows 12 .. 11 + n hold after each of the two steps what they held
\* before it, for every item count n.
C28_RowsAboveKept ==
    [][ CleaningOrRendering =>
           \A r \in KeptRows, c \in Cols :
               ValueAt(wb'["proc"], r, c) = ValueAt(wb["proc"], r, c)
      ]_vars

\* a sheet of six items was assembled again for two: the cleanup deleted
\* the stale rows, the block was rendered anew, and the header and the two
\* items are in place
C28_StaleRowsGoneItemsKept ==
    /\ Returned
    /\ runs = 2
    /\ Len(ItemList(prev.data)) = 6
    /\ ItemCount = 2
    /\ {"cleanup", "trailing"} \subseteq result["proc"].done
    /\ MaxRow(wb["proc"]) = 11 + ItemCount + 9
    /\ ValueAt(wb["proc"], 3, 3) = Get(data, "Client Name", Empty)
    /\ \A k \in 1..ItemCount : ValueAt(wb["proc"], 11 + k, 1) = Label(k)

\* both scripts hold item k of the order in row 11 + k under the label k
SameItemRows ==
    \A k \in 1..ItemCount :
        /\ \A v \in Variants : ValueAt(wb[v], 11 + k, 1) = Label(k)
        /\ \A c \in Cols : ValueAt(wb["main"], 11 + k, c) = ValueAt(wb["proc"], 11 + k, c)

\* C29: run on the same template and the same order, main.py and
\* pdf-to-excel-processor.py write every item to the same row under the same
\* label and merge I:L for the caption at the same row 11 + n + 2 for every
\* item count n >= 1; for n = 0 main.py merges at row 13 and
\* pdf-to-excel-processor.py at row 14.
C29_SameRowsSameCaptionRow ==
    (Returned /\ OnFreshTemplate /\ ItemsGiven) =>
        /\ SameItemRows
        /\ ItemCount >= 1 =>
              \A v \in Variants : HeaderMerge(11 + ItemCount + 2) \in wb[v].merged
        /\ ItemCount = 0 =>
              /\ HeaderMerge(13) \in wb["main"].merged
              /\ HeaderMerge(14) \in wb["proc"].merged

\* the passes whose answer, once cleaned, json.loads accepts
ValidPasses ==
    {i \in 1..Len(outcomes) :
        /\ outcomes[i].kind = "response"
        /\ JsonLoads(CleanResponse(outcomes[i].text)).ok}

\* what process_pdf has returned agrees with what the passes met
ReturnedAsMet ==
    returned.state = "returned" =>
        /\ ValidPasses # {} =>
              LET first == CHOOSE i \in ValidPasses : \A j \in ValidPasses : i <= j
              IN returned.value = JsonLoads(CleanResponse(outcomes[first].text)).value
        /\ ValidPasses = {} => returned.value = PyNone
        /\ (ValidPasses = {} /\ \A i \in 1..Len(outcomes) : outcomes[i].kind # "unreadable")
              => model_calls = max_retries
        /\ outcomes[1].kind = "unreadable" => (model_calls = 0 /\ returned.value = PyNone)

\* C30: whatever each model call ends in (an exception with 429 in its
\* text, another exception, an answer json.loads rejects, an answer it
\* accepts), process_pdf makes at most max_retries model calls and then
\* returns: the parsed data of the first answer that is valid JSON, None
\* when all max_retries attempts failed, and None without any model call
\* when the input file cannot be read.
C30_AtMostMaxRetriesThenReturns ==
    /\ [](model_calls <= max_retries /\ ReturnedAsMet)
    /\ (returned = Running) ~> (returned.state = "returned")

\* a rate limit, a server error, a rejected answer and another rate limit,
\* then the order on the fifth call
C30_FifthCallAnswers ==
    /\ returned = Return([Items |-> PyList(<<>>)])
    /\ model_calls = max_retries
    /\ Len(outcomes) = max_retries
    /\ outcomes[1] = [kind |-> "raised", text |-> <<"4", "2", "9">>]
    /\ outcomes[2] = [kind |-> "raised", text |-> <<"5", "0", "0">>]
    /\ outcomes[3] = [kind |-> "response", text |-> BareNull]
    /\ outcomes[4].kind = "raised"
    /\ outcomes[5] = [kind |-> "response", text |-> FencedOrder]
====
